---- MODULE Spec2Model ----
(***************************************************************************)
(* Model of app.py of the GalaChain leaderboard: the tolerant number       *)
(* parser (parse_float), the snapshot reader (read_balances_from_csv),     *)
(* the process-wide price cache (get_gala_usd_price) and the leaderboard   *)
(* builder (compute_totals).                                               *)
(*                                                                         *)
(* Numbers are finite floats with an integer value, written as TLA+        *)
(* integers; the arithmetic of the code is exact on them.  The non-finite  *)
(* floats (inf, nan) and fractional literals are outside the model.        *)
(***************************************************************************)
EXTENDS Integers, Sequences, FiniteSets, TLC

\* ------------------------------------------------------------------ bounds
MaxTime == 60       \* the clock stops advancing past this many seconds
MaxCalls == 3       \* calls of get_gala_usd_price started in one behaviour
MaxPrice == 1       \* prices the price source reports are 0..MaxPrice
NumThreads == 2     \* request threads of the concurrent deployment
MaxOwners == 2      \* accounts that may occur in the two snapshots
MaxRows == 3        \* records of a snapshot file

\* ------------------------------------------------------- program constants
PRICE_CACHE_TTL_SEC == 60

\* ------------------------------------------------------------------ values
\* A Python value handed to parse_float: None, a str (sequence of
\* characters) or a float.
NoneV == [k |-> "none"]
StrV(s) == [k |-> "str", s |-> s]
NumV(n) == [k |-> "num", n |-> n]

Digits == <<"0", "1", "2", "3", "4", "5", "6", "7", "8", "9">>
DigitSet == {Digits[i] : i \in 1..10}
DigitVal(c) == (CHOOSE i \in 1..10 : Digits[i] = c) - 1

Whitespace == {" ", "\t"}

\* str.strip(): drop leading and trailing whitespace.
RECURSIVE LStrip(_)
LStrip(s) ==
  IF s # <<>> /\ Head(s) \in Whitespace THEN LStrip(Tail(s)) ELSE s

RECURSIVE RStrip(_)
RStrip(s) ==
  IF s # <<>> /\ s[Len(s)] \in Whitespace
    THEN RStrip(SubSeq(s, 1, Len(s) - 1))
    ELSE s

Strip(s) == RStrip(LStrip(s))

\* str.lower() on the letters the model uses.
LowerChar(c) ==
  CASE c = "N" -> "n"
    [] c = "A" -> "a"
    [] c = "O" -> "o"
    [] c = "E" -> "e"
    [] c = "U" -> "u"
    [] c = "L" -> "l"
    [] c = "X" -> "x"
    [] OTHER -> c

Lower(s) == [i \in 1..Len(s) |-> LowerChar(s[i])]

\* Decimal digits of a natural number.
RECURSIVE NatStr(_)
NatStr(n) ==
  IF n < 10 THEN <<Digits[n + 1]>>
  ELSE NatStr(n \div 10) \o <<Digits[(n % 10) + 1]>>

\* str(x) of a float with an integer value: "5.0", "-1.0".
FloatStr(n) ==
  (IF n < 0 THEN <<"-">> ELSE <<>>)
    \o NatStr(IF n < 0 THEN -n ELSE n) \o <<".", "0">>

\* str(value), line 30.
PyStr(v) ==
  CASE v.k = "str" -> v.s
    [] v.k = "num" -> FloatStr(v.n)
    [] OTHER -> <<"N", "o", "n", "e">>

RECURSIVE DigitsVal(_, _)
DigitsVal(s, acc) ==
  IF s = <<>> THEN acc
  ELSE DigitsVal(Tail(s), acc * 10 + DigitVal(Head(s)))

AllIn(s, S) == \A i \in 1..Len(s) : s[i] \in S

DotAt(s) ==
  IF \E i \in 1..Len(s) : s[i] = "."
    THEN CHOOSE i \in 1..Len(s) : s[i] = "." /\ \A j \in 1..(i - 1) : s[j] # "."
    ELSE Len(s) + 1

\* float(text), line 33, on decimal literals with an integer value:
\* [+-]digits[.0*]; every other text raises ValueError (ok = FALSE).
ToFloat(s) ==
  LET signed == s # <<>> /\ Head(s) \in {"+", "-"}
      body   == IF signed THEN Tail(s) ELSE s
      d      == DotAt(body)
      ip     == SubSeq(body, 1, d - 1)
      fp     == SubSeq(body, d + 1, Len(body))
      mag    == DigitsVal(ip, 0)
  IN  IF ip # <<>> /\ AllIn(ip, DigitSet) /\ AllIn(fp, {"0"})
        THEN [ok |-> TRUE,
              v  |-> IF signed /\ Head(s) = "-" THEN -mag ELSE mag]
        ELSE [ok |-> FALSE, v |-> 0]

NullWords ==
  { <<>>, <<"n", "a">>, <<"n", "a", "n">>, <<"n", "o", "n", "e">>,
    <<"n", "u", "l", "l">> }

\* parse_float, lines 26-35.
parse_float(value) ==
  IF value = NoneV THEN 0
  ELSE LET value_str == Strip(PyStr(value))
       IN  IF value_str = <<>> \/ Lower(value_str) \in NullWords THEN 0
           ELSE LET f == ToFloat(value_str)
                IN  IF f.ok THEN f.v ELSE 0

\* =================================================================== state
VARIABLES
  \* get_gala_usd_price
  clock,        \* time.time(), seconds
  price_cache,  \* _price_cache.get("gala_usd"): <<>> or <<price, timestamp>>
  call,         \* per thread: the frame of its call of get_gala_usd_price
  prev,         \* the frame the entering thread left behind: its previous call
  calls,        \* calls started so far
  fetched,      \* pairs <<price, now>> obtained by the successful fetches
  lastStore,    \* <<>> or the pair written by the latest store, line 70
  \* compute_totals
  current,      \* argument current: owner -> balances
  starting,     \* argument starting: owner -> balances
  gala_price,   \* argument gala_price
  rows,         \* per run of the process: the list compute_totals returned
  ran,          \* per run: compute_totals has returned
  \* read_balances_from_csv
  file,         \* the file at path: whether it exists, and its records
  result,       \* the mapping read_balances_from_csv returned
  read_done     \* read_balances_from_csv has returned

cacheVars == <<clock, price_cache, call, prev, calls, fetched, lastStore>>
totalsVars == <<current, starting, gala_price, rows, ran>>
csvVars == <<file, result, read_done>>
vars == <<cacheVars, totalsVars, csvVars>>

\* A dict without keys.
EmptyDict == <<>>

\* dict.get(key), dict.get(key, default)
DictGet(d, key, default) == IF key \in DOMAIN d THEN d[key] ELSE default

\* Two runs of the process, each with its own string-hash seed.
Runs == {1, 2}

TotalsIdle ==
  /\ current = EmptyDict
  /\ starting = EmptyDict
  /\ gala_price = 0
  /\ rows = [r \in Runs |-> <<>>]
  /\ ran = [r \in Runs |-> FALSE]

CsvIdle ==
  /\ file = [exists |-> FALSE, records |-> <<>>]
  /\ result = EmptyDict
  /\ read_done = FALSE

\* ============================================================ price cache
Threads == 1..NumThreads
SeqThreads == {1}

\* The clock advances in steps of half a TTL, so that ages of 30 s, exactly
\* 60 s and more occur.
Steps == {30}

\* What requests.get(...).json() can deliver: the value under
\* data["gala"]["usd"] of a well-formed body (a number, a text, or nothing).
UsdValues ==
  {NumV(p) : p \in 0..MaxPrice} \cup {StrV(<<"x">>), NoneV}

\* The ways lines 65-68 raise: connection error, timeout, raise_for_status
\* on a non-2xx status, a body that is not JSON, JSON of the wrong shape.
FetchErrors == {"neterr", "timeout", "badstatus", "notjson", "badshape"}

IdleFrame ==
  [pc |-> "idle", now |-> 0, cached |-> <<>>, price |-> 0, ret |-> 0,
   outcome |-> "none", fetches |-> 0, storedAt |-> 0]

CacheIdle ==
  /\ clock = 0
  /\ price_cache = <<>>
  /\ call = [t \in Threads |-> IdleFrame]
  /\ prev = IdleFrame
  /\ calls = 0
  /\ fetched = {}
  /\ lastStore = <<>>

InitCache == CacheIdle /\ TotalsIdle /\ CsvIdle

Tick ==
  /\ \E d \in Steps :
       /\ clock + d <= MaxTime
       /\ clock' = clock + d
  /\ UNCHANGED <<price_cache, call, prev, calls, fetched, lastStore>>
  /\ UNCHANGED <<totalsVars, csvVars>>

\* Line 60: now = time.time().  A thread enters the function.
Begin(t) ==
  /\ call[t].pc \in {"idle", "done"}
  /\ calls < MaxCalls
  /\ calls' = calls + 1
  /\ prev' = call[t]
  /\ call' = [call EXCEPT ![t] = [IdleFrame EXCEPT !.pc = "read", !.now = clock]]
  /\ UNCHANGED <<clock, price_cache, fetched, lastStore>>
  /\ UNCHANGED <<totalsVars, csvVars>>

\* The test of line 62 on the local values.
Fresh_Inclusive(cached, now) ==
  cached # <<>> /\ now - cached[2] <= PRICE_CACHE_TTL_SEC

Fresh_NoTTL(cached, now) ==
  cached # <<>> /\ now - cached[2] < 0

Fresh(cached, now) ==
  cached # <<>> /\ now - cached[2] < PRICE_CACHE_TTL_SEC

\* Lines 61-63: read the slot; return the cached price when it is fresh.
ReadCache(t) ==
  /\ call[t].pc = "read"
  /\ LET cached == price_cache
     IN  call' = [call EXCEPT ![t] =
           IF Fresh(cached, call[t].now)
             THEN [@ EXCEPT !.cached = cached, !.ret = cached[1],
                            !.outcome = "hit", !.pc = "done"]
             ELSE [@ EXCEPT !.cached = cached, !.pc = "fetch"]]
  /\ UNCHANGED <<clock, price_cache, prev, calls, fetched, lastStore>>
  /\ UNCHANGED <<totalsVars, csvVars>>

\* Lines 65-68, the request succeeds: price = parse_float(...["usd"]).
FetchOk(t) ==
  /\ call[t].pc = "fetch"
  /\ \E usd \in UsdValues :
       LET price == parse_float(usd)
       IN  /\ call' = [call EXCEPT ![t] =
                 [@ EXCEPT !.price = price, !.fetches = @ + 1, !.pc = "store"]]
           /\ fetched' = fetched \cup {<<price, call[t].now>>}
  /\ UNCHANGED <<clock, price_cache, prev, calls, lastStore>>
  /\ UNCHANGED <<totalsVars, csvVars>>

\* Lines 65-68, the request raises.
FetchFail(t) ==
  /\ call[t].pc = "fetch"
  /\ \E e \in FetchErrors :
       call' = [call EXCEPT ![t] =
                 [@ EXCEPT !.fetches = @ + 1, !.pc = "except"]]
  /\ UNCHANGED <<clock, price_cache, prev, calls, fetched, lastStore>>
  /\ UNCHANGED <<totalsVars, csvVars>>

\* Faulty variant of Store: a falsy (zero) price is returned but not cached.
Store_SkipZero(t) ==
  /\ call[t].pc = "store"
  /\ price_cache' =
       IF call[t].price = 0 THEN price_cache ELSE <<call[t].price, call[t].now>>
  /\ lastStore' =
       IF call[t].price = 0 THEN lastStore ELSE <<call[t].price, call[t].now>>
  /\ call' = [call EXCEPT ![t] =
       [@ EXCEPT !.ret = call[t].price, !.outcome = "ok", !.storedAt = clock,
                 !.pc = "done"]]
  /\ UNCHANGED <<clock, prev, calls, fetched>>
  /\ UNCHANGED <<totalsVars, csvVars>>

\* Faulty variant of Store: the price and the timestamp are written separately, so that a
\* store over an existing pair leaves the other call's timestamp in place.
Store_Torn(t) ==
  /\ call[t].pc = "store"
  /\ price_cache' =
       IF price_cache = <<>> THEN <<call[t].price, call[t].now>>
       ELSE <<call[t].price, price_cache[2]>>
  /\ lastStore' = <<call[t].price, call[t].now>>
  /\ call' = [call EXCEPT ![t] =
       [@ EXCEPT !.ret = call[t].price, !.outcome = "ok", !.storedAt = clock,
                 !.pc = "done"]]
  /\ UNCHANGED <<clock, prev, calls, fetched>>
  /\ UNCHANGED <<totalsVars, csvVars>>

\* Lines 70-71: _price_cache["gala_usd"] = (price, now); return price.
Store(t) ==
  /\ call[t].pc = "store"
  /\ price_cache' = <<call[t].price, call[t].now>>
  /\ lastStore' = <<call[t].price, call[t].now>>
  /\ call' = [call EXCEPT ![t] =
       [@ EXCEPT !.ret = call[t].price, !.outcome = "ok", !.storedAt = clock,
                 !.pc = "done"]]
  /\ UNCHANGED <<clock, prev, calls, fetched>>
  /\ UNCHANGED <<totalsVars, csvVars>>

\* Faulty variant of Except: the handler gives up on the stale pair and returns 0.0.
Except_Zero(t) ==
  /\ call[t].pc = "except"
  /\ call' = [call EXCEPT ![t] =
       [@ EXCEPT !.ret = 0, !.outcome = "fail", !.pc = "done"]]
  /\ UNCHANGED <<clock, price_cache, prev, calls, fetched, lastStore>>
  /\ UNCHANGED <<totalsVars, csvVars>>

\* Lines 72-76: fall back to the pair read at line 61, else 0.0.
Except(t) ==
  /\ call[t].pc = "except"
  /\ call' = [call EXCEPT ![t] =
       [@ EXCEPT !.ret = IF call[t].cached # <<>> THEN call[t].cached[1] ELSE 0,
                 !.outcome = "fail", !.pc = "done"]]
  /\ UNCHANGED <<clock, price_cache, prev, calls, fetched, lastStore>>
  /\ UNCHANGED <<totalsVars, csvVars>>

get_gala_usd_price(t) ==
  \/ Begin(t)
  \/ ReadCache(t)
  \/ FetchOk(t)
  \/ FetchFail(t)
  \/ Store(t)
  \/ Except(t)

NextSeq == Tick \/ \E t \in SeqThreads : get_gala_usd_price(t)
NextConc == Tick \/ \E t \in Threads : get_gala_usd_price(t)

SpecSeq == InitCache /\ [][NextSeq]_vars
SpecConc == InitCache /\ [][NextConc]_vars

\* ------------------------------------------------- price cache: properties
\* The running call of the single request thread and the call before it
\* have both returned.
TwoCallsDone ==
  /\ call[1].pc = "done"
  /\ prev.pc = "done"

WithinTTL == call[1].now - prev.now < PRICE_CACHE_TTL_SEC

\* C1 as stated: whatever the cache held and whatever the fetch did, two
\* consecutive calls less than 60 s apart make at most one fetch in total
\* and return the same price.
C1_TwoCallsOneFetch ==
  (TwoCallsDone /\ WithinTTL) =>
    /\ prev.fetches + call[1].fetches <= 1
    /\ call[1].ret = prev.ret

\* C1 amended: of two consecutive calls less than 60 s apart, when the
\* first fetched successfully the second makes no fetch and returns the
\* same price; when the first was served from the cache at most one fetch
\* is made in total, and the prices are equal unless the second call's own
\* fetch succeeds.
C1_TwoCallsAfterSuccess ==
  (TwoCallsDone /\ WithinTTL) =>
    /\ prev.outcome = "ok" =>
         /\ call[1].fetches = 0
         /\ prev.fetches = 1
         /\ call[1].ret = prev.ret
    /\ prev.outcome = "hit" =>
         /\ prev.fetches + call[1].fetches <= 1
         /\ call[1].outcome \in {"hit", "fail"} => call[1].ret = prev.ret

C1_Witness ==
  /\ TwoCallsDone
  /\ call[1].now - prev.now = 30
  /\ prev.outcome = "ok"
  /\ prev.storedAt > prev.now
  /\ call[1].outcome = "hit"
  /\ call[1].ret = prev.ret

\* C2: a call whose fetch raised returns normally, leaves the slot as it
\* read it, and returns the price of the pair it read, however stale, or
\* 0.0 when there was none.
C2_FailureKeepsCache ==
  \A t \in SeqThreads :
    /\ call[t].pc = "except" => price_cache = call[t].cached
    /\ (call[t].pc = "done" /\ call[t].outcome = "fail") =>
         /\ price_cache = call[t].cached
         /\ call[t].ret = IF call[t].cached # <<>> THEN call[t].cached[1] ELSE 0

C2_Witness ==
  /\ call[1].pc = "done"
  /\ call[1].outcome = "fail"
  /\ call[1].cached # <<>>
  /\ call[1].now - call[1].cached[2] >= PRICE_CACHE_TTL_SEC
  /\ call[1].ret = 1
  /\ prev.outcome = "ok"

\* C8: a returned call made no fetch when it read a pair younger than 60 s,
\* and exactly one fetch attempt otherwise, whether that attempt succeeded
\* or failed.
C8_FetchIffStale ==
  \A t \in SeqThreads :
    call[t].pc = "done" =>
      IF call[t].cached # <<>> /\ call[t].now - call[t].cached[2] < 60
        THEN call[t].fetches = 0 /\ call[t].outcome = "hit"
        ELSE call[t].fetches = 1 /\ call[t].outcome \in {"ok", "fail"}

C8_Witness ==
  /\ call[1].pc = "done"
  /\ call[1].cached # <<>>
  /\ call[1].now - call[1].cached[2] = 60
  /\ call[1].fetches = 1
  /\ call[1].outcome = "fail"
  /\ prev.pc = "done"
  /\ prev.outcome = "hit"
  /\ prev.fetches = 0

\* C10 as stated: a successful call leaves in the slot the parsed price
\* paired with the time at which the store was executed.
C10_StoresStoreTime ==
  \A t \in SeqThreads :
    (call[t].pc = "done" /\ call[t].outcome = "ok") =>
      /\ price_cache = <<call[t].price, call[t].storedAt>>
      /\ call[t].ret = call[t].price

\* C10 amended: a successful call leaves in the slot the parsed price (0.0
\* included) paired with the time read when the call began, and returns
\* that price; the next call less than 60 s after that time returns the
\* stored price without fetching.
C10_StoresCallTime ==
  /\ \A t \in SeqThreads :
       (call[t].pc = "done" /\ call[t].outcome = "ok") =>
         /\ price_cache = <<call[t].price, call[t].now>>
         /\ call[t].ret = call[t].price
  /\ (TwoCallsDone /\ prev.outcome = "ok" /\ WithinTTL) =>
       /\ call[1].outcome = "hit"
       /\ call[1].fetches = 0
       /\ call[1].ret = prev.price

C10_Witness ==
  /\ TwoCallsDone
  /\ prev.outcome = "ok"
  /\ prev.price = 0
  /\ prev.cached # <<>>
  /\ prev.cached[1] # 0
  /\ call[1].outcome = "hit"
  /\ call[1].ret = 0
  /\ price_cache = <<0, prev.now>>

\* C7: under every interleaving the slot is empty or holds the price and
\* the timestamp of one and the same successful fetch, and it is the pair
\* of the store that executed last.
C7_WholePairLastWriter ==
  /\ price_cache = <<>> \/ price_cache \in fetched
  /\ price_cache = lastStore

C7_Witness ==
  /\ \A t \in Threads : call[t].pc = "done"
  /\ call[1].outcome = "ok"
  /\ call[2].outcome = "ok"
  /\ call[1].price # call[2].price
  /\ call[1].now < call[2].now
  /\ call[2].now - call[1].now < PRICE_CACHE_TTL_SEC
  /\ call[2].storedAt < call[1].storedAt
  /\ price_cache = <<call[1].price, call[1].now>>
\* ========================================================= compute_totals
OwnerNames == <<"alice", "bob", "carol", "dave">>
Owners == {OwnerNames[i] : i \in 1..MaxOwners}

\* One account's balances as read_balances_from_csv builds them, lines 51-55.
Balances(gala, gusdc, gusdt) ==
  [GALA |-> NumV(gala), GUSDC |-> NumV(gusdc), GUSDT |-> NumV(gusdt)]

\* Balances the snapshots draw from: worth 1 or 3, always 3, and -1.
BalanceSamples == {Balances(1, 0, 1), Balances(0, 3, 0), Balances(0, 0, -1)}

Snapshots == UNION {[S -> BalanceSamples] : S \in SUBSET Owners}

TotalsPrices == {0, 2}

\* The orders in which `for owner in owners` may visit a set: the order of a
\* set of str depends on the hash seed of the run.
IterationOrders(S) ==
  {o \in [1..Cardinality(S) -> S] :
     \A i, j \in 1..Cardinality(S) : o[i] = o[j] => i = j}

owners_CurrentOnly(cur, start) == DOMAIN cur

\* Line 84.
owners(cur, start) == DOMAIN cur \cup DOMAIN start

pct_change_NonNegative(change, starting_total) ==
  IF starting_total >= 0
    THEN [k |-> "ratio", num |-> change * 100, den |-> starting_total]
    ELSE NoneV

\* Lines 102-104: None, or (change / starting_total) * 100.0 as the
\* fraction num / den.
pct_change(change, starting_total) ==
  IF starting_total > 0
    THEN [k |-> "ratio", num |-> change * 100, den |-> starting_total]
    ELSE NoneV

\* Lines 88-117: the row of one owner.
RowOf(owner, cur, start, price) ==
  LET c == DictGet(cur, owner, EmptyDict)
      s == DictGet(start, owner, EmptyDict)
      gala_c == parse_float(DictGet(c, "GALA", NoneV))
      gusdc_c == parse_float(DictGet(c, "GUSDC", NoneV))
      gusdt_c == parse_float(DictGet(c, "GUSDT", NoneV))
      gala_s == parse_float(DictGet(s, "GALA", NoneV))
      gusdc_s == parse_float(DictGet(s, "GUSDC", NoneV))
      gusdt_s == parse_float(DictGet(s, "GUSDT", NoneV))
      current_total == gala_c * price + gusdc_c + gusdt_c
      starting_total == gala_s * price + gusdc_s + gusdt_s
      change == current_total - starting_total
  IN  [owner |-> owner, gala |-> gala_c, gusdc |-> gusdc_c, gusdt |-> gusdt_c,
       starting_total |-> starting_total, current_total |-> current_total,
       change |-> change, pct_change |-> pct_change(change, starting_total)]

\* Insert r into a list sorted by current_total, descending, behind the
\* rows that compare equal: list.sort is stable, also with reverse=True.
RECURSIVE InsertDesc(_, _)
InsertDesc(sorted, r) ==
  IF sorted = <<>> THEN <<r>>
  ELSE IF Head(sorted).current_total >= r.current_total
    THEN <<Head(sorted)>> \o InsertDesc(Tail(sorted), r)
    ELSE <<r>> \o sorted

RECURSIVE InsertAsc(_, _)
InsertAsc(sorted, r) ==
  IF sorted = <<>> THEN <<r>>
  ELSE IF Head(sorted).current_total <= r.current_total
    THEN <<Head(sorted)>> \o InsertAsc(Tail(sorted), r)
    ELSE <<r>> \o sorted

RECURSIVE SortAsc(_, _)
SortAsc(rs, acc) ==
  IF rs = <<>> THEN acc ELSE SortAsc(Tail(rs), InsertAsc(acc, Head(rs)))

\* Line 119: rows.sort(key=lambda r: r["current_total"], reverse=True).
RECURSIVE SortDesc(_, _)
SortDesc(rs, acc) ==
  IF rs = <<>> THEN acc ELSE SortDesc(Tail(rs), InsertDesc(acc, Head(rs)))

sort_rows_Ascending(rs) == SortAsc(rs, <<>>)

sort_rows(rs) == SortDesc(rs, <<>>)

\* Lines 120-121: row["rank"] = idx, idx from 1.
AssignRanks(rs) == [i \in 1..Len(rs) |-> rs[i] @@ ("rank" :> i)]

\* compute_totals, lines 79-122, with the order in which the loop of line 87
\* visits the owners.
compute_totals(cur, start, price, order) ==
  LET appended == [i \in 1..Len(order) |-> RowOf(order[i], cur, start, price)]
  IN  AssignRanks(sort_rows(appended))

InitTotals ==
  /\ CacheIdle
  /\ CsvIdle
  /\ current \in Snapshots
  /\ starting \in Snapshots
  /\ gala_price \in TotalsPrices
  /\ rows = [r \in Runs |-> <<>>]
  /\ ran = [r \in Runs |-> FALSE]

\* One run of the process calls compute_totals on the snapshots.
ComputeTotals(run) ==
  /\ ~ran[run]
  /\ \E order \in IterationOrders(owners(current, starting)) :
       rows' = [rows EXCEPT ![run] =
                  compute_totals(current, starting, gala_price, order)]
  /\ ran' = [ran EXCEPT ![run] = TRUE]
  /\ UNCHANGED <<current, starting, gala_price>>
  /\ UNCHANGED <<cacheVars, csvVars>>

NextTotals == \E run \in Runs : ComputeTotals(run)

SpecTotals == InitTotals /\ [][NextTotals]_vars

\* ---------------------------------------------- compute_totals: properties
RowsOf(run) == {rows[run][i] : i \in 1..Len(rows[run])}

C4_UnionOfAccounts ==
  \A run \in Runs :
    ran[run] =>
      /\ {r.owner : r \in RowsOf(run)} = DOMAIN current \cup DOMAIN starting
      /\ Len(rows[run]) = Cardinality(DOMAIN current \cup DOMAIN starting)
      /\ \A r \in RowsOf(run) :
           /\ r.owner \notin DOMAIN starting => r.starting_total = 0
           /\ r.owner \notin DOMAIN current =>
                /\ r.current_total = 0
                /\ r.gala = 0 /\ r.gusdc = 0 /\ r.gusdt = 0

C4_Witness ==
  /\ ran[1]
  /\ gala_price = 2
  /\ \E r, q \in RowsOf(1) :
       /\ r.owner \in DOMAIN current \ DOMAIN starting
       /\ r.current_total = 3
       /\ q.owner \in DOMAIN starting \ DOMAIN current
       /\ q.starting_total = 3

\* C5: pct_change is present exactly when starting_total > 0, and then it
\* is (current_total - starting_total) / starting_total * 100; with an
\* empty starting snapshot every row has starting_total 0 and no pct_change.
C5_PctChange ==
  \A run \in Runs :
    ran[run] =>
      \A r \in RowsOf(run) :
        /\ r.pct_change # NoneV <=> r.starting_total > 0
        /\ r.pct_change # NoneV =>
             /\ r.pct_change.den # 0
             /\ r.pct_change.num * r.starting_total =
                  (r.current_total - r.starting_total) * 100 * r.pct_change.den
        /\ DOMAIN starting = {} =>
             r.starting_total = 0 /\ r.pct_change = NoneV

C5_Witness ==
  /\ ran[1]
  /\ \E r, q \in RowsOf(1) :
       /\ r.starting_total = 3
       /\ r.current_total = 1
       /\ r.pct_change # NoneV
       /\ r.pct_change.num < 0
       /\ q.starting_total < 0
       /\ q.pct_change = NoneV

OwnerRanks(run) == [i \in 1..Len(rows[run]) |-> <<rows[run][i].owner, rows[run][i].rank>>]

\* C6: two runs of compute_totals on the same snapshots and price return
\* the same sequence of (owner, rank), ties on current_total included.
C6_DeterministicOrder ==
  (ran[1] /\ ran[2]) => OwnerRanks(1) = OwnerRanks(2)

\* ================================================= read_balances_from_csv
\* The owner cell of a record: missing, empty, blank, or a name with and
\* without surrounding whitespace.
OwnerCells ==
  { NoneV, StrV(<<>>), StrV(<<" ", "\t">>), StrV(<<"a">>), StrV(<<" ", "a", " ">>),
    StrV(<<"b">>) }

\* The asset cells of a record: plain numbers; padded, null-word and
\* negative texts; a bad number, a short row (None) and a missing column.
AssetCells ==
  { [GALA |-> StrV(<<"1">>), GUSDC |-> StrV(<<"0">>), GUSDT |-> StrV(<<>>)],
    [GALA |-> StrV(<<" ", "2", " ">>), GUSDC |-> StrV(<<"N", "a", "N">>),
     GUSDT |-> StrV(<<"-", "1">>)],
    [GALA |-> StrV(<<"x">>), GUSDC |-> NoneV] }

\* The rows csv.DictReader yields: dicts from column name to str or None.
Records == {("owner" :> o) @@ a : o \in OwnerCells, a \in AssetCells}

Files ==
  {[exists |-> FALSE, records |-> <<>>]} \cup
  {[exists |-> TRUE, records |-> rs] :
     rs \in UNION {[1..n -> Records] : n \in 0..MaxRows}}

\* Line 45: (row.get("owner") or "").strip()
OwnerOf(row) ==
  LET cell == DictGet(row, "owner", NoneV)
  IN  Strip(IF cell = NoneV THEN <<>> ELSE cell.s)

\* Lines 48-55: the balances of one row.
BalancesOf(row) ==
  Balances(parse_float(DictGet(row, "GALA", NoneV)),
           parse_float(DictGet(row, "GUSDC", NoneV)),
           parse_float(DictGet(row, "GUSDT", NoneV)))

\* result[owner] = value
DictSet(d, key, value) ==
  [x \in DOMAIN d \cup {key} |-> IF x = key THEN value ELSE d[x]]

AddRow_KeepFirst(res, row) ==
  IF OwnerOf(row) = <<>> \/ OwnerOf(row) \in DOMAIN res THEN res
  ELSE DictSet(res, OwnerOf(row), BalancesOf(row))

\* Lines 45-55: one turn of the loop.
AddRow(res, row) ==
  IF OwnerOf(row) = <<>> THEN res
  ELSE DictSet(res, OwnerOf(row), BalancesOf(row))

RECURSIVE ReadRows(_, _)
ReadRows(records, res) ==
  IF records = <<>> THEN res
  ELSE ReadRows(Tail(records), AddRow(res, Head(records)))

\* read_balances_from_csv, lines 38-56.
read_balances_from_csv(f) ==
  IF ~f.exists THEN EmptyDict ELSE ReadRows(f.records, EmptyDict)

InitCsv ==
  /\ CacheIdle
  /\ TotalsIdle
  /\ file \in Files
  /\ result = EmptyDict
  /\ read_done = FALSE

ReadBalances ==
  /\ ~read_done
  /\ result' = read_balances_from_csv(file)
  /\ read_done' = TRUE
  /\ UNCHANGED file
  /\ UNCHANGED <<cacheVars, totalsVars>>

NextCsv == ReadBalances

SpecCsv == InitCsv /\ [][NextCsv]_vars

\* -------------------------------------- read_balances_from_csv: properties
\* The owner cell of record i with the whitespace around it removed.
Trimmed(i) ==
  LET cell == IF "owner" \in DOMAIN file.records[i]
                THEN file.records[i]["owner"] ELSE NoneV
      text == IF cell = NoneV THEN <<>> ELSE cell.s
      first == {j \in 1..Len(text) : text[j] \notin Whitespace}
  IN  IF first = {} THEN <<>>
      ELSE SubSeq(text, CHOOSE j \in first : \A m \in first : j <= m,
                        CHOOSE j \in first : \A m \in first : j >= m)

LastOf(o) ==
  CHOOSE i \in 1..Len(file.records) :
    /\ Trimmed(i) = o
    /\ \A j \in 1..Len(file.records) : Trimmed(j) = o => j <= i

Cell(i, col) ==
  IF col \in DOMAIN file.records[i] THEN file.records[i][col] ELSE NoneV

\* C9: a missing file reads as the empty mapping; otherwise the mapping has
\* exactly the trimmed non-empty owners of the records, each with the
\* balances of its last record.
C9_LastRecordWins ==
  read_done =>
    IF ~file.exists THEN DOMAIN result = {}
    ELSE /\ DOMAIN result =
              {Trimmed(i) : i \in 1..Len(file.records)} \ {<<>>}
         /\ \A o \in DOMAIN result :
              /\ result[o].GALA = NumV(parse_float(Cell(LastOf(o), "GALA")))
              /\ result[o].GUSDC = NumV(parse_float(Cell(LastOf(o), "GUSDC")))
              /\ result[o].GUSDT = NumV(parse_float(Cell(LastOf(o), "GUSDT")))

C9_Witness ==
  /\ read_done
  /\ file.exists
  /\ Len(file.records) = 3
  /\ file.records[1]["owner"] = StrV(<<" ", "a", " ">>)
  /\ file.records[2]["owner"] = StrV(<<" ", "\t">>)
  /\ file.records[3]["owner"] = StrV(<<"a">>)
  /\ BalancesOf(file.records[1]) = Balances(1, 0, 0)
  /\ DOMAIN result = {<<"a">>}
  /\ result[<<"a">>] = Balances(2, 0, -1)
====
